---- MODULE Spec2Model ----
(***************************************************************************)
(* Model of src/cpu/sys/linux/cpu_times.rs: the CpuTimes record, its       *)
(* derived accessors, CpuTimes::from_str and the two readers of /proc/stat *)
(* (cpu_times and cpu_times_percpu).                                       *)
(*                                                                         *)
(* Text is a sequence of one-character strings.  A Duration is the pair    *)
(* [secs, nanos] that std::time::Duration stores.                          *)
(***************************************************************************)
EXTENDS Integers, Sequences, FiniteSets, TLC

VARIABLES
    label,      \* harness of from_str: the label token of the generated line
    toks,       \* harness of from_str: the field tokens of the generated line
    line,       \* the text handed to CpuTimes::from_str
    parsed,     \* <<the io::Result returned by CpuTimes::from_str>>, or <<>>
    derived,    \* <<busy() and total() of the parsed record>>, or <<>>
    doc,        \* the lines /proc/stat was written from
    source,     \* the content of /proc/stat, or Unreadable
    calls       \* the most recent calls of the readers, newest first

vars == <<label, toks, line, parsed, derived, doc, source, calls>>


(***************************************************************************)
(* Characters                                                              *)
(***************************************************************************)
DigitChars == <<"0", "1", "2", "3", "4", "5", "6", "7", "8", "9">>

IsDigit(c) == \E i \in 1..10 : DigitChars[i] = c

DigitVal(c) == (CHOOSE i \in 1..10 : DigitChars[i] = c) - 1

\* char::is_whitespace on the characters that occur in the modelled texts
IsWhitespace(c) == c \in {" ", "\t", "\n", "\r"}

(***************************************************************************)
(* str::split_whitespace: the maximal runs of non-whitespace characters,   *)
(* in order; leading, trailing and repeated whitespace yields no token.    *)
(***************************************************************************)
RECURSIVE SkipWhitespace(_, _)
\* the first index from i on that holds no whitespace, Len(s) + 1 if none
SkipWhitespace(s, i) ==
    IF i > Len(s) \/ ~IsWhitespace(s[i]) THEN i ELSE SkipWhitespace(s, i + 1)

RECURSIVE TokenEnd(_, _)
\* the first index from i on that holds whitespace, Len(s) + 1 if none
TokenEnd(s, i) ==
    IF i > Len(s) \/ IsWhitespace(s[i]) THEN i ELSE TokenEnd(s, i + 1)

RECURSIVE SplitFrom(_, _)
SplitFrom(s, i) ==
    LET b == SkipWhitespace(s, i) IN
    IF b > Len(s) THEN <<>>
    ELSE LET e == TokenEnd(s, b) IN
         <<SubSeq(s, b, e - 1)>> \o SplitFrom(s, e)

split_whitespace(s) == SplitFrom(s, 1)

\* Iterator::skip(1)
skip1(seq) == IF Len(seq) = 0 THEN <<>> ELSE Tail(seq)

(***************************************************************************)
(* Count::from_str.  Count is an unsigned primitive integer (it is cast    *)
(* with `as f64`), so the grammar is that of the standard library: an      *)
(* optional '+' followed by one or more decimal digits, with an overflow   *)
(* error above the maximum of the type.  The maximum is compared digit by  *)
(* digit, so that no integer wider than the checker's is ever computed.    *)
(***************************************************************************)
COUNT_MAX_DIGITS ==
    <<"1", "8", "4", "4", "6", "7", "4", "4", "0", "7",
      "3", "7", "0", "9", "5", "5", "1", "6", "1", "5">>

RECURSIVE StripZeros(_)
StripZeros(ds) ==
    IF Len(ds) > 1 /\ ds[1] = "0" THEN StripZeros(Tail(ds)) ELSE ds

RECURSIVE DigitsGreater(_, _)
\* for two digit strings of the same length: a > b
DigitsGreater(a, b) ==
    IF Len(a) = 0 THEN FALSE
    ELSE IF DigitVal(a[1]) # DigitVal(b[1])
         THEN DigitVal(a[1]) > DigitVal(b[1])
         ELSE DigitsGreater(Tail(a), Tail(b))

ExceedsCountMax(ds) ==
    LET z == StripZeros(ds) IN
    IF Len(z) # Len(COUNT_MAX_DIGITS)
    THEN Len(z) > Len(COUNT_MAX_DIGITS)
    ELSE DigitsGreater(z, COUNT_MAX_DIGITS)

RECURSIVE DigitPrefixLen(_)
\* the length of the longest prefix of t made of decimal digits
DigitPrefixLen(t) ==
    IF Len(t) = 0 \/ ~IsDigit(t[1]) THEN 0 ELSE 1 + DigitPrefixLen(Tail(t))

RECURSIVE DigitsValue(_, _)
DigitsValue(ds, acc) ==
    IF Len(ds) = 0 THEN acc
    ELSE DigitsValue(Tail(ds), acc * 10 + DigitVal(ds[1]))

Count_from_str(t) ==
    IF Len(t) = 0 THEN [ok |-> FALSE, cause |-> "Empty"]
    ELSE IF Len(t) = 1 /\ t[1] \in {"+", "-"}
    THEN [ok |-> FALSE, cause |-> "InvalidDigit"]
    ELSE LET ds == IF t[1] = "+" THEN Tail(t) ELSE t
             k  == DigitPrefixLen(ds)
         IN  IF ExceedsCountMax(SubSeq(ds, 1, k))
             THEN [ok |-> FALSE, cause |-> "PosOverflow"]
             ELSE IF k < Len(ds)
             THEN [ok |-> FALSE, cause |-> "InvalidDigit"]
             ELSE [ok |-> TRUE, val |-> DigitsValue(ds, 0)]

(***************************************************************************)
(* Errors                                                                  *)
(***************************************************************************)
\* utils::invalid_data: an io::Error of kind InvalidData with a message
invalid_data(msg) == [kind |-> "InvalidData", msg |-> msg]

\* try_parse!: the value, or an early return of the decoding error that
\* names the offending token and the cause
try_parse(t) ==
    LET r == Count_from_str(t) IN
    IF r.ok THEN [ok |-> TRUE, val |-> r.val]
    ELSE [ok |-> FALSE,
          err |-> invalid_data(<<"Could not parse", t, r.cause>>)]

Ok(v) == [ok |-> TRUE, val |-> v]
Err(e) == [ok |-> FALSE, err |-> e]

(***************************************************************************)
(* std::time::Duration                                                     *)
(***************************************************************************)
NANOS_PER_SEC == 1000000000

\* the process-wide ticks-per-second value (sysconf(_SC_CLK_TCK))
TICKS_PER_SECOND == 100

Dur(s, n) == [secs |-> s, nanos |-> n]

\* Duration + Duration: the seconds add, the nanoseconds add with a carry
DurationAdd(a, b) ==
    LET n == a.nanos + b.nanos IN
    IF n >= NANOS_PER_SEC
    THEN Dur(a.secs + b.secs + 1, n - NANOS_PER_SEC)
    ELSE Dur(a.secs + b.secs, n)

\* Duration::from_secs_f64(num / den): the whole seconds, and the fraction
\* rounded to the nearest nanosecond (ties to even).  The fraction is
\* divided three decimal places at a time.
from_secs_f64(num, den) ==
    LET r0 == num % den
        q1 == (r0 * 1000) \div den
        r1 == (r0 * 1000) % den
        q2 == (r1 * 1000) \div den
        r2 == (r1 * 1000) % den
        q3 == (r2 * 1000) \div den
        r3 == (r2 * 1000) % den
        n  == q1 * 1000000 + q2 * 1000 + q3
        up == 2 * r3 > den \/ (2 * r3 = den /\ n % 2 = 1)
        nn == IF up THEN n + 1 ELSE n
    IN  IF nn >= NANOS_PER_SEC
        THEN Dur(num \div den + 1, nn - NANOS_PER_SEC)
        ELSE Dur(num \div den, nn)

(***************************************************************************)
(* CpuTimes                                                                *)
(***************************************************************************)
\* mutant of CpuTimes: nice and system read from each other's index
CpuTimes_swapped(fields) ==
    [user    |-> fields[1], nice   |-> fields[3], system     |-> fields[2],
     idle    |-> fields[4], iowait |-> fields[5], irq        |-> fields[6],
     softirq |-> fields[7], steal  |-> fields[8], guest      |-> fields[9],
     guest_nice |-> fields[10]]

\* the struct literal of from_str: fields[0] .. fields[9] in this order
CpuTimes(fields) ==
    [user    |-> fields[1], nice   |-> fields[2], system     |-> fields[3],
     idle    |-> fields[4], iowait |-> fields[5], irq        |-> fields[6],
     softirq |-> fields[7], steal  |-> fields[8], guest      |-> fields[9],
     guest_nice |-> fields[10]]

\* mutant of busy: guest time counted as busy time
busy_with_guest(r) ==
    DurationAdd(DurationAdd(DurationAdd(DurationAdd(DurationAdd(DurationAdd(
        DurationAdd(r.user, r.system), r.nice), r.iowait), r.irq), r.softirq),
        r.steal), r.guest)

busy(r) ==
    DurationAdd(DurationAdd(DurationAdd(DurationAdd(DurationAdd(DurationAdd(
        r.user, r.system), r.nice), r.iowait), r.irq), r.softirq), r.steal)

total(r) == DurationAdd(busy(r), r.idle)

(***************************************************************************)
(* CpuTimes::from_str                                                      *)
(***************************************************************************)
RECURSIVE collect_skip(_)
\* mutant of collect: an entry that does not parse is dropped
collect_skip(entries) ==
    IF Len(entries) = 0 THEN Ok(<<>>)
    ELSE LET h == try_parse(entries[1])
             t == collect_skip(Tail(entries))
         IN  IF ~h.ok THEN t ELSE Ok(<<h.val>> \o t.val)

RECURSIVE collect(_)
\* .map(try_parse!).collect::<io::Result<Vec<Count>>>(): the values in
\* order, or the error of the first entry that fails
collect(entries) ==
    IF Len(entries) = 0 THEN Ok(<<>>)
    ELSE LET h == try_parse(entries[1]) IN
         IF ~h.ok THEN h
         ELSE LET t == collect(Tail(entries)) IN
              IF ~t.ok THEN t ELSE Ok(<<h.val>> \o t.val)

\* .map(|entry| Duration::from_secs_f64(entry as f64 / *TICKS_PER_SECOND))
to_durations(counts) ==
    [i \in 1..Len(counts) |-> from_secs_f64(counts[i], TICKS_PER_SECOND)]

\* mutant of from_str: the fields are counted before they are converted
from_str_count_first(s) ==
    LET entries == skip1(split_whitespace(s)) IN
    IF Len(entries) # 10
    THEN Err(invalid_data(<<"Expected 10 fields but got", Len(entries)>>))
    ELSE LET counts == collect(entries) IN
         IF ~counts.ok THEN Err(counts.err)
         ELSE Ok(CpuTimes(to_durations(counts.val)))

\* mutant of from_str: only too few fields are refused
from_str_at_least(s) ==
    LET counts == collect(skip1(split_whitespace(s))) IN
    IF ~counts.ok THEN Err(counts.err)
    ELSE LET fields == to_durations(counts.val) IN
         IF Len(fields) < 10
         THEN Err(invalid_data(<<"Expected 10 fields but got", Len(fields)>>))
         ELSE Ok(CpuTimes(fields))

from_str(s) ==
    LET counts == collect(skip1(split_whitespace(s))) IN
    IF ~counts.ok THEN Err(counts.err)
    ELSE LET fields == to_durations(counts.val) IN
         IF Len(fields) # 10
         THEN Err(invalid_data(<<"Expected 10 fields but got", Len(fields)>>))
         ELSE Ok(CpuTimes(fields))

(***************************************************************************)
(* Harness of CpuTimes::from_str: lines written from a label and field     *)
(* tokens.  A token records, next to its text, what it was written from:   *)
(* digits (the text is made of decimal digits only), val (the number the   *)
(* digits denote, -1 when there is none or it is beyond the checker's      *)
(* integers), fits (the number is at most the maximum of Count).           *)
(***************************************************************************)
MaxFields == 12

RECURSIVE ToDigits(_)
\* the decimal text of a natural number
ToDigits(n) ==
    IF n < 10 THEN <<DigitChars[n + 1]>>
    ELSE Append(ToDigits(n \div 10), DigitChars[(n % 10) + 1])

Zeros(z) == [i \in 1..z |-> "0"]

NumTok(n, z) ==
    [text |-> Zeros(z) \o ToDigits(n), digits |-> TRUE, val |-> n, fits |-> TRUE]

PlusTok(n) ==
    [text |-> <<"+">> \o ToDigits(n), digits |-> FALSE, val |-> n, fits |-> TRUE]

JunkTok(t) == [text |-> t, digits |-> FALSE, val |-> -1, fits |-> FALSE]

\* digit strings that denote a number above the maximum of Count
BigTok(t) == [text |-> t, digits |-> TRUE, val |-> -1, fits |-> FALSE]

OverMax == [COUNT_MAX_DIGITS EXCEPT ![20] = "6"]
Nines == [i \in 1..20 |-> "9"]

BaseTicks(i) == ((i * 37) % 251) + 1

DevToks ==
    { NumTok(0, 0), NumTok(7, 2), NumTok(12345, 0), PlusTok(5),
      JunkTok(<<"-", "1">>), JunkTok(<<"x">>), JunkTok(<<"1", ".", "5">>),
      JunkTok(<<"1", "2", "a">>), JunkTok(<<"+">>),
      BigTok(Nines), BigTok(OverMax) }

DevToks2 == { NumTok(60, 0), JunkTok(<<"y">>), BigTok(Nines) }

\* label, leading whitespace, separator after the label, separator between
\* fields, trailing whitespace
Shapes ==
    { [label |-> <<"c", "p", "u">>, lead |-> <<>>, sep1 |-> <<" ", " ">>,
       sep |-> <<" ">>, trail |-> <<>>],
      [label |-> <<"c", "p", "u", "0">>, lead |-> <<>>, sep1 |-> <<" ">>,
       sep |-> <<" ">>, trail |-> <<" ">>],
      [label |-> <<"i", "n", "t", "r">>, lead |-> <<" ">>, sep1 |-> <<"\t">>,
       sep |-> <<"\t", " ">>, trail |-> <<"\t">>],
      [label |-> <<"7">>, lead |-> <<>>, sep1 |-> <<" ">>,
       sep |-> <<" ", " ", " ">>, trail |-> <<"\r">>] }

\* whitespace-only and empty lines
Blanks == { <<>>, <<" ">>, <<" ", "\t">> }

RECURSIVE JoinToks(_, _)
JoinToks(ts, sep) ==
    IF Len(ts) = 0 THEN <<>>
    ELSE IF Len(ts) = 1 THEN ts[1].text
    ELSE ts[1].text \o sep \o JoinToks(Tail(ts), sep)

Render(sh, ts) ==
    sh.lead \o sh.label
        \o (IF Len(ts) = 0 THEN <<>> ELSE sh.sep1 \o JoinToks(ts, sh.sep))
        \o sh.trail

\* the line of the unit test of the source
TestTicks == <<11867200, 6935, 2978038, 19104017, 85955, 502109, 144021, 0, 0, 0>>

ReaderIdle ==
    doc = <<>> /\ source = [readable |-> TRUE, data |-> <<>>] /\ calls = <<>>

InitParse ==
    /\ \/ \E n \in 0..MaxFields, sh \in Shapes, p \in 0..MaxFields,
             q \in 0..MaxFields, a \in DevToks, b \in DevToks2 :
             /\ p <= n
             /\ q <= n
             /\ (q = 0 \/ p < q)
             /\ (p = 0 => q = 0)
             /\ label = sh.label
             /\ toks = [i \in 1..n |->
                          IF i = p THEN a
                          ELSE IF i = q THEN b
                          ELSE NumTok(BaseTicks(i), 0)]
             /\ line = Render(sh, toks)
       \/ \E sh \in Shapes :
             /\ label = sh.label
             /\ toks = [i \in 1..10 |-> NumTok(TestTicks[i], 0)]
             /\ line = Render(sh, toks)
       \/ \E bl \in Blanks :
             /\ label = <<>>
             /\ toks = <<>>
             /\ line = bl
    /\ parsed = <<>>
    /\ derived = <<>>
    /\ ReaderIdle

\* let result = CpuTimes::from_str(line)
Parse ==
    /\ parsed = <<>>
    /\ parsed' = <<from_str(line)>>
    /\ UNCHANGED <<label, toks, line, derived, doc, source, calls>>

\* result.unwrap().busy() and .total()
Derive ==
    /\ parsed # <<>>
    /\ parsed[1].ok
    /\ derived = <<>>
    /\ derived' = <<[busy  |-> busy(parsed[1].val),
                     total |-> total(parsed[1].val)]>>
    /\ UNCHANGED <<label, toks, line, parsed, doc, source, calls>>

NextParse == Parse \/ Derive

SpecParse == InitParse /\ [][NextParse]_vars

(***************************************************************************)
(* The readers of /proc/stat                                               *)
(***************************************************************************)
\* fs::read_to_string("/proc/stat"): the text, or the I/O error
read_to_string(src) ==
    IF src.readable THEN Ok(src.data)
    ELSE Err([kind |-> "PermissionDenied", msg |-> <<"os error">>])

\* a line without the "\r" of a "\r\n" ending
StripCr(l) ==
    IF Len(l) > 0 /\ l[Len(l)] = "\r" THEN SubSeq(l, 1, Len(l) - 1) ELSE l

RECURSIVE LineEnd(_, _)
\* the first index from i on that holds "\n", Len(s) + 1 if none
LineEnd(s, i) ==
    IF i > Len(s) \/ s[i] = "\n" THEN i ELSE LineEnd(s, i + 1)

RECURSIVE LinesFrom(_, _)
LinesFrom(s, i) ==
    IF i > Len(s) THEN <<>>
    ELSE LET e == LineEnd(s, i) IN
         IF e > Len(s)
         THEN <<SubSeq(s, i, Len(s))>>
         ELSE <<StripCr(SubSeq(s, i, e - 1))>> \o LinesFrom(s, e + 1)

\* str::lines: the text between line endings ("\n" or "\r\n"); the ending
\* of the last line is optional, and a "\r" that no "\n" follows is kept
lines(s) == LinesFrom(s, 1)

\* str::starts_with
starts_with(l, prefix) ==
    Len(l) >= Len(prefix) /\ SubSeq(l, 1, Len(prefix)) = prefix

CpuPrefix == <<"c", "p", "u">>

RECURSIVE take_while_cpu(_)
\* .take_while(|line| line.starts_with("cpu"))
take_while_cpu(ls) ==
    IF Len(ls) = 0 \/ ~starts_with(ls[1], CpuPrefix) THEN <<>>
    ELSE <<ls[1]>> \o take_while_cpu(Tail(ls))

\* mutant of percpu_lines: every later line with the prefix is collected
percpu_lines_filter(data) ==
    SelectSeq(skip1(lines(data)), LAMBDA l : starts_with(l, CpuPrefix))

\* data.lines().skip(1).take_while(..).collect()
percpu_lines(data) == take_while_cpu(skip1(lines(data)))

RECURSIVE parse_each_skip(_)
\* mutant of parse_each: a line that does not decode is left out
parse_each_skip(ls) ==
    IF Len(ls) = 0 THEN Ok(<<>>)
    ELSE LET h == from_str(ls[1])
             t == parse_each_skip(Tail(ls))
         IN  IF ~h.ok THEN t ELSE Ok(<<h.val>> \o t.val)

RECURSIVE parse_each(_)
\* for line in lines { cpu_times.push(CpuTimes::from_str(&line)?); }
parse_each(ls) ==
    IF Len(ls) = 0 THEN Ok(<<>>)
    ELSE LET h == from_str(ls[1]) IN
         IF ~h.ok THEN h
         ELSE LET t == parse_each(Tail(ls)) IN
              IF ~t.ok THEN t ELSE Ok(<<h.val>> \o t.val)

\* mutant of cpu_times: the last line is decoded instead of the first
cpu_times_last_line(src) ==
    LET data == read_to_string(src) IN
    IF ~data.ok THEN data
    ELSE LET ls == lines(data.val) IN
         IF Len(ls) = 0
         THEN Err(invalid_data(<<"'/proc/stat' is empty">>))
         ELSE from_str(ls[Len(ls)])

cpu_times(src) ==
    LET data == read_to_string(src) IN
    IF ~data.ok THEN data
    ELSE LET ls == lines(data.val) IN
         IF Len(ls) = 0
         THEN Err(invalid_data(<<"'/proc/stat' is empty">>))
         ELSE from_str(ls[1])

\* mutant of cpu_times_percpu: no check that a line was collected
cpu_times_percpu_unchecked(src) ==
    LET data == read_to_string(src) IN
    IF ~data.ok THEN data ELSE parse_each(percpu_lines(data.val))

cpu_times_percpu(src) ==
    LET data == read_to_string(src) IN
    IF ~data.ok THEN data
    ELSE LET ls == percpu_lines(data.val) IN
         IF Len(ls) = 0
         THEN Err(invalid_data(<<"'/proc/stat' is missing per cpu times">>))
         ELSE parse_each(ls)

(***************************************************************************)
(* Harness of the readers: /proc/stat written from a sequence of lines.    *)
(* A line records, next to its text, whether the text was written with     *)
(* "cpu" as its first characters.                                          *)
(***************************************************************************)
MaxLines == 4

Ticks(vs) == [i \in 1..Len(vs) |-> NumTok(vs[i], 0)]

PlainShape(lbl) ==
    [label |-> lbl, lead |-> <<>>, sep1 |-> <<" ">>, sep |-> <<" ">>,
     trail |-> <<>>]

AggLine ==
    [text |-> Render([PlainShape(CpuPrefix) EXCEPT !.sep1 = <<" ", " ">>],
                     Ticks(<<118, 6, 29, 191, 8, 5, 14, 0, 0, 0>>)),
     cpu |-> TRUE]

CoreLine ==
    [text |-> Render(PlainShape(<<"c", "p", "u", "0">>),
                     Ticks(<<30, 1, 7, 48, 2, 1, 3, 250, 4, 9>>)),
     cpu |-> TRUE]

BadTokenLine ==
    [text |-> Render(PlainShape(<<"c", "p", "u", "1">>),
                     <<NumTok(1, 0), JunkTok(<<"x">>)>>),
     cpu |-> TRUE]

BadCountLine ==
    [text |-> Render(PlainShape(<<"c", "p", "u", "2">>), Ticks(<<1, 2>>)),
     cpu |-> TRUE]

OtherLine ==
    [text |-> Render(PlainShape(<<"i", "n", "t", "r">>),
                     <<NumTok(5, 0), JunkTok(<<"x">>)>>),
     cpu |-> FALSE]

EmptyLine == [text |-> <<>>, cpu |-> FALSE]

IndentedLine ==
    [text |-> <<" ">> \o CoreLine.text, cpu |-> FALSE]

\* the lines /proc/stat may start with, and those that may follow
FirstLines == { AggLine, OtherLine, EmptyLine }

LaterLines ==
    { CoreLine, AggLine, BadTokenLine, BadCountLine, OtherLine, IndentedLine }

\* line ending, and whether the last line has one
Endings ==
    { [eol |-> <<"\n">>, final |-> TRUE],
      [eol |-> <<"\r", "\n">>, final |-> FALSE] }

RECURSIVE WriteLines(_, _)
WriteLines(d, e) ==
    IF Len(d) = 0 THEN <<>>
    ELSE IF Len(d) = 1
         THEN d[1].text
                \o (IF e.final \/ d[1].text = <<>> THEN e.eol ELSE <<>>)
         ELSE d[1].text \o e.eol \o WriteLines(Tail(d), e)

File(d, e) == [readable |-> TRUE, data |-> WriteLines(d, e)]

NoFile == [readable |-> FALSE, data |-> <<>>]

ParserIdle ==
    label = <<>> /\ toks = <<>> /\ line = <<>> /\ parsed = <<>> /\ derived = <<>>

\* the newest call and the one before it
Record(c) == <<c>> \o (IF calls = <<>> THEN <<>> ELSE <<calls[1]>>)

\* mutant of CallCpuTimes: the result of the previous call is returned again
CallCpuTimes_cached ==
    /\ calls' = Record([op |-> "cpu_times", src |-> source,
                        res |-> IF \E i \in 1..Len(calls) :
                                      calls[i].op = "cpu_times"
                                THEN (calls[CHOOSE i \in 1..Len(calls) :
                                      calls[i].op = "cpu_times"]).res
                                ELSE cpu_times(source)])
    /\ UNCHANGED <<label, toks, line, parsed, derived, doc, source>>

\* a call of cpu_times()
CallCpuTimes ==
    /\ calls' = Record([op |-> "cpu_times", src |-> source,
                        res |-> cpu_times(source)])
    /\ UNCHANGED <<label, toks, line, parsed, derived, doc, source>>

\* a call of cpu_times_percpu()
CallCpuTimesPercpu ==
    /\ calls' = Record([op |-> "cpu_times_percpu", src |-> source,
                        res |-> cpu_times_percpu(source)])
    /\ UNCHANGED <<label, toks, line, parsed, derived, doc, source>>

InitRead ==
    /\ ParserIdle
    /\ \/ \E n \in 0..MaxLines, e \in Endings :
             \E d \in [1..n -> FirstLines \cup LaterLines] :
                 /\ n > 0 => d[1] \in FirstLines
                 /\ \A j \in 2..n : d[j] \in LaterLines
                 /\ doc = d
                 /\ source = File(d, e)
       \/ doc = <<>> /\ source = NoFile
    /\ calls = <<>>

NextRead == CallCpuTimes \/ CallCpuTimesPercpu

SpecRead == InitRead /\ [][NextRead]_vars

\* the contents /proc/stat takes in Spec
StatFiles ==
    { <<>>, <<AggLine>>, <<AggLine, CoreLine>>, <<CoreLine, AggLine, CoreLine>>,
      <<AggLine, BadTokenLine>>, <<OtherLine, CoreLine>>, <<BadCountLine>>,
      <<AggLine, OtherLine, CoreLine>> }

Init ==
    /\ ParserIdle
    /\ doc = <<>>
    /\ source = File(<<>>, [eol |-> <<"\n">>, final |-> TRUE])
    /\ calls = <<>>

\* the kernel, or a test, changes the content of /proc/stat
WriteSource ==
    /\ \/ \E d \in StatFiles :
             /\ doc' = d
             /\ source' = File(d, [eol |-> <<"\n">>, final |-> TRUE])
       \/ doc' = <<>> /\ source' = NoFile
    /\ source' # source
    /\ UNCHANGED <<label, toks, line, parsed, derived, calls>>

Next == CallCpuTimes \/ CallCpuTimesPercpu \/ WriteSource

Spec == Init /\ [][Next]_vars

(***************************************************************************)
(* Properties of CpuTimes::from_str and busy(), checked under SpecParse    *)
(***************************************************************************)
Parsed == parsed # <<>>

\* the token is a valid text of a Count: digits, or '+' and digits, in range
Good(t) == t.val >= 0

\* the token holds a character that is no decimal digit
NonDigit(t) == ~t.digits

\* v ticks as a Duration, in exact arithmetic
ExactDur(v) ==
    Dur(v \div TICKS_PER_SECOND,
        (v % TICKS_PER_SECOND) * (NANOS_PER_SEC \div TICKS_PER_SECOND))

FieldOf(r, i) ==
    CASE i = 1 -> r.user    [] i = 2 -> r.nice   [] i = 3 -> r.system
      [] i = 4 -> r.idle    [] i = 5 -> r.iowait [] i = 6 -> r.irq
      [] i = 7 -> r.softirq [] i = 8 -> r.steal  [] i = 9 -> r.guest
      [] i = 10 -> r.guest_nice

IsCountError(res, n) ==
    /\ ~res.ok
    /\ res.err.kind = "InvalidData"
    /\ res.err.msg[1] = "Expected 10 fields but got"
    /\ res.err.msg[2] = n

IsTokenError(res, t) ==
    /\ ~res.ok
    /\ res.err.kind = "InvalidData"
    /\ res.err.msg[1] = "Could not parse"
    /\ res.err.msg[2] = t.text

\* the index of the leftmost field token that is no valid Count, 0 if none
FirstBad ==
    IF \A i \in 1..Len(toks) : Good(toks[i]) THEN 0
    ELSE CHOOSE i \in 1..Len(toks) :
            ~Good(toks[i]) /\ \A j \in 1..(i - 1) : Good(toks[j])

TenDigitFields ==
    label # <<>> /\ Len(toks) = 10 /\ \A i \in 1..10 : toks[i].digits

\* C1 as stated: a label followed by exactly ten fields made of decimal
\* digits always decodes, field i being the i-th count over ticks per second.
C1_AsStated ==
    (Parsed /\ TenDigitFields) =>
        /\ parsed[1].ok
        /\ \A i \in 1..10 : FieldOf(parsed[1].val, i) = ExactDur(toks[i].val)

\* C1 amended: a label followed by exactly ten fields made of decimal digits,
\* each denoting a number within the range of Count, decodes to the record
\* whose i-th field (user, nice, system, idle, iowait, irq, softirq, steal,
\* guest, guest_nice) is the i-th count over ticks per second, whatever the
\* label and the whitespace around the tokens.
C1_FieldsInOrder ==
    (Parsed /\ TenDigitFields /\ \A i \in 1..10 : toks[i].fits) =>
        /\ parsed[1].ok
        /\ \A i \in 1..10 : FieldOf(parsed[1].val, i) = ExactDur(toks[i].val)

C1_Witness ==
    /\ Parsed /\ TenDigitFields /\ parsed[1].ok
    /\ label = <<"i", "n", "t", "r">>
    /\ toks[3].val = 12345
    /\ parsed[1].val.system = Dur(123, 450000000)

\* C5 as stated: a line whose fields are all numeric and are fewer or more
\* than ten always fails with the error that reports the number of fields.
C5_AsStated ==
    (Parsed /\ Len(toks) # 10 /\ \A i \in 1..Len(toks) : toks[i].digits) =>
        IsCountError(parsed[1], Len(toks))

\* C5 amended: a line with fewer or more than ten fields after the label
\* (a bare label and an empty line included) never yields a record, and when
\* every field is a valid Count the error reports the number of fields seen.
C5_WrongCount ==
    (Parsed /\ Len(toks) # 10) =>
        /\ ~parsed[1].ok
        /\ (\A i \in 1..Len(toks) : Good(toks[i])) =>
               IsCountError(parsed[1], Len(toks))

C5_Witness ==
    /\ Parsed /\ Len(toks) = 11 /\ \A i \in 1..11 : toks[i].digits
    /\ IsCountError(parsed[1], 11)

\* C6 as stated: a line with a field that holds a non-digit character always
\* fails with the decoding error that names such a field.
C6_AsStated ==
    (Parsed /\ \E i \in 1..Len(toks) : NonDigit(toks[i])) =>
        \E i \in 1..Len(toks) :
            NonDigit(toks[i]) /\ IsTokenError(parsed[1], toks[i])

\* C6 amended: a line with a field that is no valid Count because of a
\* character other than a leading '+' (a letter, a minus sign, a decimal
\* point, a lone sign) always fails with the decoding error that names the
\* leftmost field that is no valid Count, and yields no record.
C6_BadToken ==
    (Parsed /\ \E i \in 1..Len(toks) : NonDigit(toks[i]) /\ ~Good(toks[i])) =>
        IsTokenError(parsed[1], toks[FirstBad])

C6_Witness ==
    /\ Parsed /\ Len(toks) = 10
    /\ toks[4].text = <<"1", ".", "5">>
    /\ \A i \in 1..3 : Good(toks[i])
    /\ IsTokenError(parsed[1], toks[4])

\* C10: the fields are converted before they are counted: when some field
\* is no valid Count the result is the decoding error of the leftmost such
\* field, whatever the number of fields, and the field-count error is
\* returned exactly when every field is a valid Count and they are not ten.
C10_Precedence ==
    Parsed =>
        /\ (FirstBad # 0) => IsTokenError(parsed[1], toks[FirstBad])
        /\ (~parsed[1].ok /\ parsed[1].err.msg[1] = "Expected 10 fields but got")
               <=> (FirstBad = 0 /\ Len(toks) # 10)

C10_Witness ==
    /\ Parsed /\ Len(toks) = 3
    /\ FirstBad = 2
    /\ ~Good(toks[3])
    /\ IsTokenError(parsed[1], toks[2])

\* the sum of a sequence of Durations, the nanoseconds summed in two parts
RECURSIVE SumOver(_, _)
SumOver(f, n) == IF n = 0 THEN 0 ELSE f[n] + SumOver(f, n - 1)

SumDur(ds) ==
    LET n     == Len(ds)
        S     == SumOver([i \in 1..n |-> ds[i].secs], n)
        M     == SumOver([i \in 1..n |-> ds[i].nanos \div 1000], n)
        L     == SumOver([i \in 1..n |-> ds[i].nanos % 1000], n)
        micro == M + (L \div 1000)
    IN  Dur(S + (micro \div 1000000), (micro % 1000000) * 1000 + (L % 1000))

ProbeDurs == { Dur(0, 0), Dur(0, 999999999), Dur(5, 10000000) }

\* C8: busy() of a decoded record is the sum of its user, nice, system,
\* iowait, irq, softirq and steal fields, and does not change when only
\* idle, guest or guest_nice change.
C8_Busy ==
    (derived # <<>>) =>
        LET r == parsed[1].val IN
        /\ derived[1].busy =
              SumDur(<<r.user, r.nice, r.system, r.iowait,
                       r.irq, r.softirq, r.steal>>)
        /\ \A d \in ProbeDurs :
              /\ busy([r EXCEPT !.idle = d]) = derived[1].busy
              /\ busy([r EXCEPT !.guest = d]) = derived[1].busy
              /\ busy([r EXCEPT !.guest_nice = d]) = derived[1].busy

C8_Witness ==
    /\ derived # <<>>
    /\ parsed[1].val.guest # Dur(0, 0)
    /\ parsed[1].val.idle # Dur(0, 0)
    /\ derived[1].busy.secs >
          SumOver([i \in 1..10 |-> FieldOf(parsed[1].val, i).secs], 10)
             - parsed[1].val.idle.secs - parsed[1].val.guest.secs
             - parsed[1].val.guest_nice.secs

(***************************************************************************)
(* Properties of cpu_times() and cpu_times_percpu(), checked under         *)
(* SpecRead, where /proc/stat keeps the content it was written with        *)
(***************************************************************************)
EmptyError == Err(invalid_data(<<"'/proc/stat' is empty">>))

MissingError == Err(invalid_data(<<"'/proc/stat' is missing per cpu times">>))

CallsOf(op) == { i \in 1..Len(calls) : calls[i].op = op }

\* the number of lines of the run of "cpu" lines that starts at line 2
RunLen ==
    IF Len(doc) <= 1 THEN 0
    ELSE CHOOSE k \in 0..(Len(doc) - 1) :
            /\ \A j \in 2..(k + 1) : doc[j].cpu
            /\ (k + 2 <= Len(doc)) => ~doc[k + 2].cpu

\* the lines of the run that do not decode
Failing == { j \in 2..(RunLen + 1) : ~from_str(doc[j].text).ok }

\* C2: on a readable source cpu_times() returns the empty-source error when
\* the text has no line, and otherwise what CpuTimes::from_str returns for
\* the first line, record or error, whatever the later lines hold.
C2_FirstLine ==
    \A i \in CallsOf("cpu_times") :
        source.readable =>
            calls[i].res = IF Len(doc) = 0 THEN EmptyError
                           ELSE from_str(doc[1].text)

C2_Witness ==
    /\ calls # <<>> /\ calls[1].op = "cpu_times"
    /\ Len(doc) = 3 /\ doc[1] = AggLine /\ doc[2] = BadTokenLine
    /\ calls[1].res.ok
    /\ calls[1].res.val.user = Dur(1, 180000000)

\* C3: when cpu_times_percpu() succeeds it returns one record per line of
\* the maximal run of lines that starts at the second line and whose text
\* begins with "cpu", in file order, record i decoded from line i + 1; the
\* first line is skipped and nothing after the run is returned.
C3_ContiguousRun ==
    \A i \in CallsOf("cpu_times_percpu") :
        calls[i].res.ok =>
            /\ Len(calls[i].res.val) = RunLen
            /\ \A k \in 1..RunLen :
                  Ok(calls[i].res.val[k]) = from_str(doc[k + 1].text)

C3_Witness ==
    /\ calls # <<>> /\ calls[1].op = "cpu_times_percpu"
    /\ doc = <<OtherLine, CoreLine, OtherLine, AggLine>>
    /\ calls[1].res.ok
    /\ Len(calls[1].res.val) = 1
    /\ calls[1].res.val[1].steal = Dur(2, 500000000)

\* C4: when a line of the run does not decode, cpu_times_percpu() returns
\* no record but the error of CpuTimes::from_str for the first such line in
\* file order, whatever the lines after it hold.
C4_FailFast ==
    \A i \in CallsOf("cpu_times_percpu") :
        (source.readable /\ Failing # {}) =>
            LET first == CHOOSE j \in Failing : \A m \in Failing : j <= m IN
            /\ ~calls[i].res.ok
            /\ calls[i].res = from_str(doc[first].text)

C4_Witness ==
    /\ calls # <<>> /\ calls[1].op = "cpu_times_percpu"
    /\ doc = <<AggLine, CoreLine, BadCountLine, BadTokenLine>>
    /\ IsCountError(calls[1].res, 2)

\* C7: on a readable source cpu_times_percpu() returns the missing-per-core
\* error whenever no line whose text begins with "cpu" follows the first
\* line at once (an empty source, a single line, a second line without the
\* prefix); a successful call never returns an empty sequence.
C7_MissingPerCpu ==
    \A i \in CallsOf("cpu_times_percpu") :
        /\ (source.readable /\ RunLen = 0) => calls[i].res = MissingError
        /\ calls[i].res.ok => Len(calls[i].res.val) >= 1

C7_Witness ==
    /\ calls # <<>> /\ calls[1].op = "cpu_times_percpu"
    /\ doc = <<AggLine, IndentedLine, CoreLine>>
    /\ calls[1].res = MissingError

(***************************************************************************)
(* Property of the readers under Spec, where /proc/stat changes between    *)
(* the calls                                                               *)
(***************************************************************************)
ResultFor(op, src) ==
    IF op = "cpu_times" THEN cpu_times(src) ELSE cpu_times_percpu(src)

====
